---- MODULE Spec2Model ----
(***************************************************************************)
(* Model of src/app.py (Easy Collage): the three composers                 *)
(* create_preview, create_word_doc and create_png, each with its own copy  *)
(* of the grid planner and its own row-major fill loop, and the download   *)
(* section of the page script that names the generated artifact.           *)
(*                                                                         *)
(* One behaviour is one call of one composer on one request (an ordered    *)
(* list of image buffers and a title), followed by the download button of  *)
(* the page script when the composer returned an artifact.                 *)
(*                                                                         *)
(* An image buffer is modelled by the point of the per-image try block at  *)
(* which it raises: "none" (a valid image), "open" (Image.open or          *)
(* exif_transpose raises), "process" (resize / border in the raster        *)
(* composers, pil_img.save in the document composer) or "place"            *)
(* (canvas.paste, resp. add_picture).                                      *)
(***************************************************************************)
EXTENDS Integers, Sequences, FiniteSets, TLC

VARIABLES composer, title, images, pc, num, c, r, cw, ch, t_h, i, j, idx,
          pasted, table, tmpfiles, attempts, steps, res, filename

vars == <<composer, title, images, pc, num, c, r, cw, ch, t_h, i, j, idx,
          pasted, table, tmpfiles, attempts, steps, res, filename>>

(* ------------------------------ bounds -------------------------------- *)

\* largest number of images in a request of the composer specification
MaxNum == 17
\* largest number of images of one request that fail in their try block
MaxFail == 1
\* largest image count handed to the planner specification
MaxCount == 26

(* ------------------------- program constants -------------------------- *)

PngW == 2480
PngH == 3508
PngTitleH == 400
PreviewW == 800
PreviewH == 1131
PreviewTitleH == 100

Composers == {"preview", "word", "png"}
Titles == {"", "Trip"}
Faults == {"open", "process", "place"}

(* ----------------------------- arithmetic ----------------------------- *)

\* math.ceil(math.sqrt(n)): the least k with k*k >= n
RECURSIVE CeilSqrtFrom(_, _)
CeilSqrtFrom(n, k) == IF k * k >= n THEN k ELSE CeilSqrtFrom(n, k + 1)

CeilSqrt(n) == CeilSqrtFrom(n, 0)

FloorDiv(a, b) == a \div b

\* math.ceil(a / b) for positive integers a, b
CeilDiv(a, b) == (a + b - 1) \div b

(* --------------------- the three planner copies ----------------------- *)

create_preview_plan_low(n) ==
    IF n = 1 THEN <<1, 1>>
    ELSE IF n <= 5 THEN <<2, 2>>
    ELSE IF n <= 9 THEN <<3, 3>>
    ELSE IF n <= 16 THEN <<4, 4>>
    ELSE <<CeilSqrt(n), CeilDiv(n, CeilSqrt(n))>>

create_preview_plan(n) ==
    IF n = 1 THEN <<1, 1>>
    ELSE IF n <= 4 THEN <<2, 2>>
    ELSE IF n <= 9 THEN <<3, 3>>
    ELSE IF n <= 16 THEN <<4, 4>>
    ELSE <<CeilSqrt(n), CeilDiv(n, CeilSqrt(n))>>

create_word_doc_plan_strict(n) ==
    IF n = 1 THEN <<1, 1>>
    ELSE IF n <= 4 THEN <<2, 2>>
    ELSE IF n < 9 THEN <<3, 3>>
    ELSE IF n <= 16 THEN <<4, 4>>
    ELSE <<CeilSqrt(n), CeilDiv(n, CeilSqrt(n))>>

create_word_doc_plan(n) ==
    IF n = 1 THEN <<1, 1>>
    ELSE IF n <= 4 THEN <<2, 2>>
    ELSE IF n <= 9 THEN <<3, 3>>
    ELSE IF n <= 16 THEN <<4, 4>>
    ELSE <<CeilSqrt(n), CeilDiv(n, CeilSqrt(n))>>

create_png_plan_square(n) ==
    IF n = 1 THEN <<1, 1>>
    ELSE IF n <= 4 THEN <<2, 2>>
    ELSE IF n <= 9 THEN <<3, 3>>
    ELSE IF n <= 16 THEN <<4, 4>>
    ELSE <<CeilSqrt(n), CeilSqrt(n)>>

create_png_plan_floor(n) ==
    IF n = 1 THEN <<1, 1>>
    ELSE IF n <= 4 THEN <<2, 2>>
    ELSE IF n <= 9 THEN <<3, 3>>
    ELSE IF n <= 16 THEN <<4, 4>>
    ELSE <<CeilSqrt(n), FloorDiv(n, CeilSqrt(n))>>

create_png_plan(n) ==
    IF n = 1 THEN <<1, 1>>
    ELSE IF n <= 4 THEN <<2, 2>>
    ELSE IF n <= 9 THEN <<3, 3>>
    ELSE IF n <= 16 THEN <<4, 4>>
    ELSE <<CeilSqrt(n), CeilDiv(n, CeilSqrt(n))>>

\* the copy of the planner the running composer executes
plan(comp, n) ==
    IF comp = "preview" THEN create_preview_plan(n)
    ELSE IF comp = "word" THEN create_word_doc_plan(n)
    ELSE create_png_plan(n)

(* --------------------------- raster geometry -------------------------- *)

\* W, H of the canvas
CanvasW(comp) == IF comp = "preview" THEN PreviewW ELSE PngW
CanvasH(comp) == IF comp = "preview" THEN PreviewH ELSE PngH

\* t_h = 400 if title else 0   (100 in the preview)
TitleBand(comp, t) ==
    IF t = "" THEN 0
    ELSE IF comp = "preview" THEN PreviewTitleH ELSE PngTitleH

\* cw = W // c
CellWidth(w, cols) == w \div cols

CellHeightFullCanvas(h, band, rows) == h \div rows

\* avail_h = H - t_h ; ch = avail_h // r
CellHeight(h, band, rows) == (h - band) \div rows

PasteOffsetTransposed(row, col, w, h, band) == <<row * w, band + col * h>>

\* canvas.paste(img, (j*cw, t_h + i*ch))
PasteOffset(row, col, w, h, band) == <<col * w, band + row * h>>

(* ------------------------------ requests ------------------------------ *)

\* the subsets of S with at most k elements
RECURSIVE KSubsets(_, _)
KSubsets(S, k) ==
    IF k = 0 THEN {{}}
    ELSE KSubsets(S, k - 1) \cup
         {T \cup {x} : T \in KSubsets(S, k - 1), x \in S}

\* the requests of n images of which at most MaxFail fail
ImagesWith(n) ==
    UNION {{[k \in 1..n |-> IF k \in F THEN g[k] ELSE "none"] :
               g \in [F -> Faults]} : F \in KSubsets(1..n, MaxFail)}

Requests == UNION {ImagesWith(n) : n \in 0..MaxNum}

\* the requests of n valid images
ValidImages(n) == [k \in 1..n |-> "none"]

EmptyTable == <<>>

\* doc.add_table(rows=r, cols=c): r*c empty cells
NewTable(rows, cols) ==
    [p \in (0..(rows - 1)) \X (0..(cols - 1)) |-> [styled |-> FALSE, pic |-> -1]]

(* ------------------------------- Init --------------------------------- *)

InitLocals ==
    /\ pc = "start"
    /\ num = 0 /\ c = 0 /\ r = 0 /\ cw = 0 /\ ch = 0 /\ t_h = 0
    /\ i = 0 /\ j = 0 /\ idx = 0
    /\ pasted = {}
    /\ table = EmptyTable
    /\ tmpfiles = {}
    /\ attempts = <<>>
    /\ steps = {}
    /\ res = "unset"
    /\ filename = "unset"

Init ==
    /\ composer \in Composers
    /\ title \in Titles
    /\ images \in Requests
    /\ InitLocals

PlanInit ==
    /\ composer \in Composers
    /\ title \in Titles
    /\ images \in {ValidImages(n) : n \in 0..MaxCount}
    /\ InitLocals

(* ------------------------- per-image outcomes ------------------------- *)

EmptyCheckMissing(imgs) == FALSE

\* `if not images` (create_preview) / `if num == 0` (the two generators)
IsEmpty(imgs) == Len(imgs) = 0

NextIdxInsideTry(k, fault) == IF fault = "none" THEN k + 1 ELSE k

\* idx += 1 after the try/except, whatever the try block did
NextIdx(k, fault) == k + 1

\* the temporary files the try block of create_word_doc leaves behind for
\* image k: NamedTemporaryFile(delete=False) creates the file once the image
\* has been opened, and os.remove runs only after save and add_picture
\* both returned
LeftBehind(k, fault) == IF fault \in {"process", "place"} THEN {k} ELSE {}

\* f"{title_input}.docx" / f"{title_input}.png"
DownloadName(t, ext) == t \o ext

Extension(comp) == IF comp = "word" THEN ".docx" ELSE ".png"

(* ------------------------------ actions ------------------------------- *)

\* empty request: every composer returns None
ReturnAbsent ==
    /\ pc = "start"
    /\ IsEmpty(images)
    /\ num' = IF composer = "preview" THEN num ELSE Len(images)
    /\ res' = "None"
    /\ pc' = "done"
    /\ UNCHANGED <<composer, title, images, c, r, cw, ch, t_h, i, j, idx,
                   pasted, table, tmpfiles, attempts, steps, filename>>

\* non-empty request: canvas / document allocated, title band reserved and
\* title drawn
Begin ==
    /\ pc = "start"
    /\ ~IsEmpty(images)
    /\ num' = Len(images)
    /\ t_h' = IF composer = "word" THEN 0 ELSE TitleBand(composer, title)
    /\ pc' = "plan"
    /\ UNCHANGED <<composer, title, images, c, r, cw, ch, i, j, idx,
                   pasted, table, tmpfiles, attempts, steps, res, filename>>

\* the planner copy of the composer, the cell size and (document) the table
Plan ==
    /\ pc = "plan"
    /\ c' = plan(composer, num)[1]
    /\ r' = plan(composer, num)[2]
    /\ IF composer = "word"
          THEN /\ table' = NewTable(r', c')
               /\ UNCHANGED <<cw, ch>>
          ELSE /\ cw' = CellWidth(CanvasW(composer), c')
               /\ ch' = CellHeight(CanvasH(composer), t_h, r')
               /\ UNCHANGED table
    /\ idx' = 0 /\ i' = 0 /\ j' = 0
    /\ steps' = steps \cup {"plan"}
    /\ pc' = "loop"
    /\ UNCHANGED <<composer, title, images, num, t_h, pasted, tmpfiles,
                   attempts, res, filename>>

\* one iteration of the inner loop of create_png / create_preview
create_png_try ==
    /\ pc = "loop"
    /\ composer \in {"png", "preview"}
    /\ i < r /\ j < c /\ idx < num
    /\ LET fault == images[idx + 1]
           at == PasteOffset(i, j, cw, ch, t_h)
       IN  /\ pasted' = IF fault = "none"
                           THEN pasted \cup {[img |-> idx, x |-> at[1], y |-> at[2],
                                              w |-> cw, h |-> ch]}
                           ELSE pasted
           /\ idx' = NextIdx(idx, fault)
    /\ attempts' = Append(attempts, idx)
    /\ j' = j + 1
    /\ steps' = steps \cup {"loop"}
    /\ UNCHANGED <<composer, title, images, pc, num, c, r, cw, ch, t_h, i,
                   table, tmpfiles, res, filename>>

\* one iteration of the inner loop of create_word_doc
create_word_doc_try ==
    /\ pc = "loop"
    /\ composer = "word"
    /\ i < r /\ j < c /\ idx < num
    /\ LET fault == images[idx + 1]
       IN  /\ table' = [table EXCEPT ![<<i, j>>] =
                           [styled |-> TRUE,
                            pic |-> IF fault = "none" THEN idx ELSE -1]]
           /\ tmpfiles' = tmpfiles \cup LeftBehind(idx, fault)
           /\ idx' = NextIdx(idx, fault)
    /\ attempts' = Append(attempts, idx)
    /\ j' = j + 1
    /\ steps' = steps \cup {"loop"}
    /\ UNCHANGED <<composer, title, images, pc, num, c, r, cw, ch, t_h, i,
                   pasted, res, filename>>

\* `if idx >= num: break` leaves the inner loop; the outer loop goes on
InnerBreak ==
    /\ pc = "loop"
    /\ i < r /\ j < c /\ idx >= num
    /\ i' = i + 1 /\ j' = 0
    /\ steps' = steps \cup {"loop"}
    /\ UNCHANGED <<composer, title, images, pc, num, c, r, cw, ch, t_h, idx,
                   pasted, table, tmpfiles, attempts, res, filename>>

\* `for j in range(c)` is exhausted: next row
InnerExhausted ==
    /\ pc = "loop"
    /\ i < r /\ j >= c
    /\ i' = i + 1 /\ j' = 0
    /\ steps' = steps \cup {"loop"}
    /\ UNCHANGED <<composer, title, images, pc, num, c, r, cw, ch, t_h, idx,
                   pasted, table, tmpfiles, attempts, res, filename>>

\* `for i in range(r)` is exhausted
OuterDone ==
    /\ pc = "loop"
    /\ i >= r
    /\ steps' = steps \cup {"loop"}
    /\ pc' = "save"
    /\ UNCHANGED <<composer, title, images, num, c, r, cw, ch, t_h, i, j, idx,
                   pasted, table, tmpfiles, attempts, res, filename>>

\* canvas.save / doc.save into a BytesIO (the preview returns the canvas)
Save ==
    /\ pc = "save"
    /\ res' = IF composer = "preview" THEN "canvas" ELSE "buffer"
    /\ steps' = IF composer = "preview" THEN steps ELSE steps \cup {"save"}
    /\ pc' = "done"
    /\ UNCHANGED <<composer, title, images, num, c, r, cw, ch, t_h, i, j, idx,
                   pasted, table, tmpfiles, attempts, filename>>

\* page script: `if preview_img: st.image(...)`
ShowPreview ==
    /\ pc = "done"
    /\ composer = "preview"
    /\ res # "None"
    /\ pc' = "shown"
    /\ UNCHANGED <<composer, title, images, num, c, r, cw, ch, t_h, i, j, idx,
                   pasted, table, tmpfiles, attempts, steps, res, filename>>

\* page script: `if res: st.download_button(..., f"{title_input}.ext", ...)`
Download ==
    /\ pc = "done"
    /\ composer \in {"word", "png"}
    /\ res # "None"
    /\ filename' = DownloadName(title, Extension(composer))
    /\ pc' = "offered"
    /\ UNCHANGED <<composer, title, images, num, c, r, cw, ch, t_h, i, j, idx,
                   pasted, table, tmpfiles, attempts, steps, res>>

Next ==
    \/ ReturnAbsent
    \/ Begin
    \/ Plan
    \/ create_png_try
    \/ create_word_doc_try
    \/ InnerBreak
    \/ InnerExhausted
    \/ OuterDone
    \/ Save
    \/ ShowPreview
    \/ Download

Spec == Init /\ [][Next]_vars

PlanNext ==
    \/ ReturnAbsent
    \/ Begin
    \/ Plan

PlanSpec == PlanInit /\ [][PlanNext]_vars

(* ------------------------------ typing -------------------------------- *)

TypeOK ==
    /\ composer \in Composers
    /\ title \in Titles
    /\ pc \in {"start", "plan", "loop", "save", "done", "shown", "offered"}
    /\ num \in 0..(MaxNum + MaxCount)
    /\ idx \in 0..num
    /\ steps \subseteq {"plan", "loop", "save"}
    /\ res \in {"unset", "None", "canvas", "buffer"}

(* ------------------------- auxiliary predicates ----------------------- *)

\* the composer has left its fill loop
Filled == pc \in {"save", "done", "shown", "offered"}

\* the composer has returned
Returned == pc \in {"done", "shown", "offered"}

Raster == composer \in {"png", "preview"}

\* 0-based indices of the images of the request, and of those that fail
Indices == 0..(Len(images) - 1)
Failing == {k \in Indices : images[k + 1] # "none"}
Valid == Indices \ Failing

\* the grid cells, and those at row-major position n or later
Cells == (0..(r - 1)) \X (0..(c - 1))
Trailing == {p \in Cells : p[1] * c + p[2] >= num}

\* an image has been pasted at the offset of grid cell p of the canvas
CanvasCellFilled(p) ==
    \E q \in pasted : q.x = p[2] * cw /\ q.y = t_h + p[1] * ch

\* k is the least integer with k*k >= n
IsCeilSqrt(k, n) == k >= 0 /\ k * k >= n /\ (k = 0 \/ (k - 1) * (k - 1) < n)

\* q is the least integer with q*d >= n
IsCeilQuotient(q, n, d) == q * d >= n /\ (q - 1) * d < n

\* the pair the grid policy documents for n images
Documented(n, g) ==
    /\ n = 1 => g = <<1, 1>>
    /\ (2 <= n /\ n <= 4) => g = <<2, 2>>
    /\ (5 <= n /\ n <= 9) => g = <<3, 3>>
    /\ (10 <= n /\ n <= 16) => g = <<4, 4>>
    /\ n > 16 => IsCeilSqrt(g[1], n) /\ IsCeilQuotient(g[2], n, g[1])

\* two pasted rectangles share no pixel
Disjoint(p, q) ==
    \/ p.x + p.w <= q.x
    \/ q.x + q.w <= p.x
    \/ p.y + p.h <= q.y
    \/ q.y + q.h <= p.y

(* ------------------------------- claims ------------------------------- *)

\* C1: for every image count n >= 1 the grid each of the three planner
\* copies computes is (1,1) for n = 1, (2,2) for 2..4, (3,3) for 5..9,
\* (4,4) for 10..16 and (ceil(sqrt(n)), ceil(n / columns)) above 16, and
\* the three copies return the same pair.
C1_GridPolicy ==
    (pc = "loop" /\ num >= 1) =>
        /\ Documented(num, <<c, r>>)
        /\ Documented(num, create_preview_plan(num))
        /\ Documented(num, create_word_doc_plan(num))
        /\ Documented(num, create_png_plan(num))
        /\ create_preview_plan(num) = create_word_doc_plan(num)
        /\ create_word_doc_plan(num) = create_png_plan(num)

C1_Witness ==
    /\ pc = "loop" /\ composer = "word" /\ num = 17
    /\ c = 5 /\ r = 4

\* C2 (as stated): the planner returns plan(1) = (1,1), plan(4) = (2,2),
\* plan(5) = (3,3), plan(16) = (4,4), plan(17) = (5,5), plan(25) = (5,5).
C2_AsStated ==
    pc = "loop" =>
        /\ num = 1 => <<c, r>> = <<1, 1>>
        /\ num = 4 => <<c, r>> = <<2, 2>>
        /\ num = 5 => <<c, r>> = <<3, 3>>
        /\ num = 16 => <<c, r>> = <<4, 4>>
        /\ num = 17 => <<c, r>> = <<5, 5>>
        /\ num = 25 => <<c, r>> = <<5, 5>>

\* C2 (amended): the planner returns plan(1) = (1,1), plan(4) = (2,2),
\* plan(5) = (3,3), plan(16) = (4,4), plan(17) = (5,4), plan(25) = (5,5).
C2_TestValues ==
    pc = "loop" =>
        /\ num = 1 => <<c, r>> = <<1, 1>>
        /\ num = 4 => <<c, r>> = <<2, 2>>
        /\ num = 5 => <<c, r>> = <<3, 3>>
        /\ num = 16 => <<c, r>> = <<4, 4>>
        /\ num = 17 => <<c, r>> = <<5, 4>>
        /\ num = 25 => <<c, r>> = <<5, 5>>

C2_Witness ==
    /\ pc = "loop" /\ composer = "png" /\ num = 17
    /\ <<c, r>> = <<5, 4>>

\* C3: for every image count n >= 1 the planned grid has capacity for the
\* request: columns * rows >= n.
C3_Capacity ==
    (pc = "loop" /\ num >= 1) => c * r >= num

C3_Witness ==
    /\ pc = "loop" /\ composer = "preview" /\ num = 21
    /\ c * r = 25

\* C4: both composers place image i (0-based, request order) in grid cell
\* (i // columns, i % columns): the raster composers paste it at pixel
\* (column * cell_width, title_band + row * cell_height), the document
\* composer puts it in table cell rows[i // columns].cells[i % columns];
\* after the fill loop every valid image is in its cell.
C4_RowMajorPlacement ==
    /\ \A p \in pasted :
          /\ p.x = (p.img % c) * cw
          /\ p.y = t_h + (p.img \div c) * ch
    /\ \A p \in DOMAIN table :
          table[p].pic # -1 => p = <<table[p].pic \div c, table[p].pic % c>>
    /\ (Filled /\ num > 0) =>
          \A k \in Valid :
             IF Raster
                THEN \E p \in pasted : p.img = k
                ELSE table[<<k \div c, k % c>>].pic = k

C4_Witness ==
    /\ pc = "save" /\ composer = "png" /\ num = 5 /\ Failing = {}
    /\ \E p \in pasted : p.img = 4 /\ p.x = cw /\ p.y = t_h + ch

\* C5: when exactly one of the N images fails in its per-image step the
\* composer still returns an artifact, the grid is the one of N images,
\* the failing image's row-major cell holds no image, every other image k
\* is in cell (k // columns, k % columns), and the call returns normally.
C5_OneFailureOneBlank ==
    (Returned /\ Cardinality(Failing) = 1) =>
        /\ res \in {"canvas", "buffer"}
        /\ idx = num
        /\ Documented(num, <<c, r>>)
        /\ ~Raster => DOMAIN table = Cells
        /\ \A k \in Failing :
              IF Raster
                 THEN /\ ~CanvasCellFilled(<<k \div c, k % c>>)
                      /\ \A p \in pasted : p.img # k
                 ELSE table[<<k \div c, k % c>>].pic = -1
        /\ \A k \in Valid :
              IF Raster
                 THEN \E p \in pasted :
                         /\ p.img = k
                         /\ p.x = (k % c) * cw
                         /\ p.y = t_h + (k \div c) * ch
                 ELSE table[<<k \div c, k % c>>].pic = k

C5_Witness ==
    /\ pc = "done" /\ composer = "word" /\ num = 5
    /\ images[2] = "place"
    /\ table[<<0, 1>>].pic = -1
    /\ table[<<0, 2>>].pic = 2
    /\ res = "buffer"

\* C6: after create_word_doc returns, whatever images succeeded or failed,
\* no temporary file created during the call still exists.
C6_NoTempFileLeft ==
    Returned => tmpfiles = {}

\* C7: on an empty image sequence each composer returns None, and does so
\* before it computes a grid, enters the fill loop or serializes anything.
C7_EmptyRequestAbsent ==
    Len(images) = 0 =>
        /\ pc \in {"start", "done"}
        /\ steps = {}
        /\ c = 0 /\ r = 0
        /\ attempts = <<>> /\ pasted = {} /\ table = EmptyTable
        /\ pc = "done" => res = "None"

C7_Witness ==
    /\ pc = "done" /\ composer = "word" /\ Len(images) = 0
    /\ res = "None"

\* C8: the suggested filename is derived from the title, and a blank title
\* gives the base name "Collage" ("Collage.png" / "Collage.docx").
C8_BlankTitleFallback ==
    pc = "offered" =>
        filename = (IF title = "" THEN "Collage" ELSE title) \o Extension(composer)

\* C9: the fill loop attempts every image exactly once, in request order,
\* and ends with the index equal to the image count; once the index has
\* reached the count the remaining iterations change nothing, so exactly
\* the columns*rows - n trailing row-major cells are never touched (canvas
\* background in the raster, unstyled empty table cells in the document),
\* and with n valid images the other n cells are the filled ones.
C9_TrailingCellsUntouched ==
    /\ (Filled /\ num > 0) => idx = num
    /\ (pc \in {"loop", "save", "done", "shown", "offered"} /\ idx = num) =>
          /\ attempts = [k \in 1..num |-> k - 1]
          /\ Cardinality(Trailing) = c * r - num
          /\ \A p \in Cells :
                IF Raster
                   THEN /\ p \in Trailing => ~CanvasCellFilled(p)
                        /\ (p \notin Trailing /\ Failing = {}) => CanvasCellFilled(p)
                   ELSE /\ p \in Trailing => table[p] = [styled |-> FALSE, pic |-> -1]
                        /\ p \notin Trailing => table[p].styled
                        /\ (p \notin Trailing /\ Failing = {}) => table[p].pic # -1

C9_Witness ==
    /\ pc = "save" /\ composer = "png" /\ num = 5 /\ Failing = {}
    /\ c = 3 /\ r = 3 /\ i = 3
    /\ Cardinality(pasted) = 5
    /\ Cardinality(Trailing) = 4

\* C10: in create_png (canvas 2480x3508, title band 400 px with a title and
\* 0 without, cell_width = 2480 // columns, cell_height = (3508 - band) //
\* rows) every pasted rectangle lies inside the canvas and below the title
\* band, and the rectangles of two different images do not overlap.
C10_PasteInsideCanvas ==
    composer = "png" =>
        LET band == IF title = "" THEN 0 ELSE 400
        IN  /\ \A p \in pasted :
                  /\ p.w = 2480 \div c
                  /\ p.h = (3508 - band) \div r
                  /\ 0 <= p.x /\ p.x + p.w <= 2480
                  /\ band <= p.y /\ p.y + p.h <= 3508
            /\ \A p, q \in pasted : p.img # q.img => Disjoint(p, q)

C10_Witness ==
    /\ pc = "save" /\ composer = "png" /\ title # "" /\ num = 17
    /\ Cardinality(pasted) >= 16
    /\ \E p \in pasted : p.y + p.h > 3508 - 4

====
